---- MODULE Spec2Model ----
(***************************************************************************)
(* Clipboard IP monitor of IPAnalyzer (src/main.py, src/config.py):        *)
(* the polling tick check_clipboard, the background lookup threads         *)
(* query_ip_info, the deferred GUI callbacks posted with                   *)
(* QTimer.singleShot(0, ...), the history store and the notification       *)
(* fallback chain of NotificationManager.show_notification.                *)
(***************************************************************************)
EXTENDS Integers, Sequences, FiniteSets, TLC

VARIABLES
    timer_active,            \* self.clipboard_timer is started
    config,                  \* Config: enable_ipv4, enable_ipv6, notifications
    last_clipboard_content,  \* IPAnalyzer.last_clipboard_content
    current_ip,              \* IPAnalyzer.current_ip
    display,                 \* current_ip_label and ip_detail_text widgets
    events,                  \* update_detail callbacks posted by lookup threads
    threads,                 \* the lookup threads started by check_clipboard
    history,                 \* rows of table history
    clipboard_history,       \* rows of table clipboard_history
    notification_methods,    \* NotificationManager.notification_methods
    last_ip,                 \* NotificationManager.last_ip
    last_notification,       \* outcome of the latest direct show_notification call
    changes,                 \* number of buffer changes processed so far
    matcher,                 \* a string, the matcher call made on it, its result
    db_call,                 \* the latest direct call of the store, its result
    check_interval,          \* Config.check_interval, in hundredths of a second
    clipboard_timers,        \* intervals (ms) of the QTimers that are running
    settings,                \* the SettingsWindow of show_settings
    conns,                   \* sqlite connections of store calls in progress
    update_check,            \* the UpdateChecker thread: its input and signals
    api_checker,             \* the APIChecker thread
    closing                  \* position of close_application

vars == <<timer_active, config, last_clipboard_content, current_ip,
          display, events, threads, history,
          clipboard_history, notification_methods, last_ip,
          last_notification, changes, matcher, db_call,
          check_interval, clipboard_timers, settings, conns, update_check,
          api_checker, closing>>

\* The variables of the settings dialog and the polling timer, and those of
\* the threads that are looked at on their own.
timer_vars == <<check_interval, clipboard_timers, settings>>
side_vars == <<timer_vars, conns, update_check, api_checker, closing>>

\* ---------------------------------------------------------------- bounds
\* The clipboard changes at most MaxChanges times.
MaxChanges == 2
\* Longest colon-separated run without a "::" given to the matcher.
MaxGroups == 9
\* Most groups on each side of a "::" given to the matcher.
MaxSide == 6
\* Most rows of a table while the store is used on its own.
MaxRows == 2

\* ------------------------------------------------------------- constants
None == "None"
\* datetime.now() at the resolution of the time column, one second. The
\* monitor writes its rows within this second: it never reads the column.
FirstSecond == 1
\* No direct call was made yet.
NoCall == "none"
IPV4_A == "203.0.113.5"
IPV6_A == "fe80::1"
Word == "server"
Space == " "

IPv4Tokens == {IPV4_A}
IPv6Tokens == {IPV6_A}
Addresses == IPv4Tokens \cup IPv6Tokens

\* A clipboard text is a sequence of tokens: whitespace, a word or an
\* address literal. The texts pyperclip.paste() returns: the empty and the
\* whitespace-only buffer, a word, an address alone, with surrounding
\* whitespace and after a word, and a text with two addresses.
RawTexts ==
    { <<>>, <<Space>>, <<Word>>,
      <<IPV4_A>>, <<Space, IPV4_A, Space>>, <<Word, IPV4_A>>,
      <<IPV6_A>>, <<IPV4_A, IPV6_A>> }

\* str.strip(): drop the leading and trailing whitespace tokens.
RECURSIVE lstrip(_)
lstrip(s) == IF s # <<>> /\ Head(s) = Space THEN lstrip(Tail(s)) ELSE s

RECURSIVE rstrip(_)
rstrip(s) ==
    IF s # <<>> /\ s[Len(s)] = Space THEN rstrip(SubSeq(s, 1, Len(s) - 1))
    ELSE s

strip(s) == rstrip(lstrip(s))

RECURSIVE finditer(_, _, _)
finditer(text, family, kind) ==
    IF text = <<>> THEN <<>>
    ELSE IF Head(text) \in family
         THEN <<[ip |-> Head(text), type |-> kind]>>
              \o finditer(Tail(text), family, kind)
         ELSE finditer(Tail(text), family, kind)

\* All IPv4 matches first, then all IPv6 matches, each family only when its
\* filter is enabled.
extract_ips_from_text(text, cfg) ==
    (IF cfg.enable_ipv4 THEN finditer(text, IPv4Tokens, "ipv4") ELSE <<>>)
    \o (IF cfg.enable_ipv6 THEN finditer(text, IPv6Tokens, "ipv6") ELSE <<>>)

\* ------------------------------------------ the matcher, character by character
\* Here a string is a sequence of one-character strings, so that the two
\* regular expressions and the validators of extract_ips_from_text can be
\* computed as the re module and the str methods compute them. The token
\* texts above abstract from this level: IPV4_A and IPV6_A stand for
\* literals that the character-level matcher returns.
Digit == {"0", "1", "2", "3", "4", "5", "6", "7", "8", "9"}

HexDigit == Digit \cup {"a", "b", "c", "d", "e", "f",
                        "A", "B", "C", "D", "E", "F"}

\* \w of the re module, for ASCII text.
WordChar ==
    HexDigit \cup {"_"}
    \cup {"g", "h", "i", "j", "k", "l", "m", "n", "o", "p", "q", "r", "s",
          "t", "u", "v", "w", "x", "y", "z"}
    \cup {"G", "H", "I", "J", "K", "L", "M", "N", "O", "P", "Q", "R", "S",
          "T", "U", "V", "W", "X", "Y", "Z"}

\* The character at position p of t, or "" outside of the string.
At(t, p) == IF p \in 1..Len(t) THEN t[p] ELSE ""

\* \b at position p: exactly one of the characters before and at p is \w.
word_boundary(t, p) == (At(t, p - 1) \in WordChar) # (At(t, p) \in WordChar)

RECURSIVE Flatten(_)
Flatten(ss) == IF ss = <<>> THEN <<>> ELSE Head(ss) \o Flatten(Tail(ss))

\* A sub-pattern applied at position p gives the positions at which a match
\* of it can end, in the order in which the backtracking engine tries them
\* (alternatives left to right, greedy quantifiers longest first). A
\* pattern applied to a list of positions continues each of them in order.

\* A literal character c after each of the positions ends.
lit(t, ends, c) ==
    Flatten([i \in DOMAIN ends |->
                IF At(t, ends[i]) = c THEN <<ends[i] + 1>> ELSE <<>>])

\* (25[0-5]|2[0-4][0-9]|[01]?[0-9][0-9]?) at position p.
octet(t, p) ==
    (IF At(t, p) = "2" /\ At(t, p + 1) = "5"
        /\ At(t, p + 2) \in {"0", "1", "2", "3", "4", "5"}
     THEN <<p + 3>> ELSE <<>>)
    \o (IF At(t, p) = "2" /\ At(t, p + 1) \in {"0", "1", "2", "3", "4"}
           /\ At(t, p + 2) \in Digit
        THEN <<p + 3>> ELSE <<>>)
    \o (IF At(t, p) \in {"0", "1"} /\ At(t, p + 1) \in Digit
        THEN (IF At(t, p + 2) \in Digit THEN <<p + 3>> ELSE <<>>)
             \o <<p + 2>>
        ELSE <<>>)
    \o (IF At(t, p) \in Digit
        THEN (IF At(t, p + 1) \in Digit THEN <<p + 2>> ELSE <<>>)
             \o <<p + 1>>
        ELSE <<>>)

then_octet(t, ends) == Flatten([i \in DOMAIN ends |-> octet(t, ends[i])])

\* ipv4_pattern at position s: \b octet \. octet \. octet \. octet \b
ipv4_pattern(t, s) ==
    IF ~word_boundary(t, s) THEN <<>>
    ELSE
      LET o1 == octet(t, s)
          o2 == then_octet(t, lit(t, o1, "."))
          o3 == then_octet(t, lit(t, o2, "."))
          o4 == then_octet(t, lit(t, o3, "."))
      IN SelectSeq(o4, LAMBDA e : word_boundary(t, e))

\* The number of hexadecimal digits at position p, up to n of them.
RECURSIVE hex_run(_, _, _)
hex_run(t, p, n) ==
    IF n = 0 \/ At(t, p) \notin HexDigit THEN 0
    ELSE 1 + hex_run(t, p + 1, n - 1)

\* [A-Fa-f0-9]{1,4} at position p, the longest run first.
hex_group(t, p) ==
    LET n == hex_run(t, p, 4) IN [i \in 1..n |-> p + n + 1 - i]

then_hex_group(t, ends) ==
    Flatten([i \in DOMAIN ends |-> hex_group(t, ends[i])])

\* (?:[A-Fa-f0-9]{1,4}:){lo,hi} at position p: one more repetition is
\* tried before the repetition stops.
RECURSIVE hex_colon_rep(_, _, _, _)
hex_colon_rep(t, p, lo, hi) ==
    IF hi = 0 THEN <<p>>
    ELSE
      LET hc == lit(t, hex_group(t, p), ":")
      IN Flatten([i \in DOMAIN hc |->
                     hex_colon_rep(t, hc[i],
                                   IF lo > 0 THEN lo - 1 ELSE 0, hi - 1)])
         \o (IF lo = 0 THEN <<p>> ELSE <<>>)

then_hex_colon_rep(t, ends, lo, hi) ==
    Flatten([i \in DOMAIN ends |-> hex_colon_rep(t, ends[i], lo, hi)])

\* ipv6_pattern at position s, its five alternatives in their order.
ipv6_pattern(t, s) ==
    then_hex_group(t, hex_colon_rep(t, s, 7, 7))
    \o then_hex_group(t,
           then_hex_colon_rep(t, lit(t, hex_colon_rep(t, s, 1, 6), ":"),
                              0, 5))
    \o then_hex_group(t,
           then_hex_colon_rep(t,
               lit(t, lit(t, hex_group(t, s), ":"), ":"), 0, 5))
    \o then_hex_group(t,
           then_hex_colon_rep(t, lit(t, lit(t, <<s>>, ":"), ":"), 0, 6))
    \o lit(t, hex_colon_rep(t, s, 1, 7), ":")

\* re.finditer from position s: the leftmost match, the first one the
\* engine finds there, then the search continues at the end of the match.
RECURSIVE re_finditer(_, _, _)
re_finditer(t, s, kind) ==
    IF s > Len(t) THEN <<>>
    ELSE
      LET ends == IF kind = "ipv4" THEN ipv4_pattern(t, s)
                  ELSE ipv6_pattern(t, s)
      IN IF ends = <<>> THEN re_finditer(t, s + 1, kind)
         ELSE <<SubSeq(t, s, Head(ends) - 1)>>
              \o re_finditer(t, Head(ends), kind)

\* str.split(sep) for a one-character separator.
RECURSIVE split(_, _)
split(s, sep) ==
    IF \A i \in DOMAIN s : s[i] # sep THEN <<s>>
    ELSE LET k == CHOOSE i \in DOMAIN s :
                      s[i] = sep /\ \A j \in 1..(i - 1) : s[j] # sep
         IN <<SubSeq(s, 1, k - 1)>> \o split(SubSeq(s, k + 1, Len(s)), sep)

startswith(s, prefix) ==
    Len(s) >= Len(prefix) /\ SubSeq(s, 1, Len(prefix)) = prefix

endswith(s, suffix) ==
    Len(s) >= Len(suffix)
    /\ SubSeq(s, Len(s) - Len(suffix) + 1, Len(s)) = suffix

\* sub in s
contains(s, sub) ==
    \E i \in 1..(Len(s) - Len(sub) + 1) : SubSeq(s, i, i + Len(sub) - 1) = sub

\* str.count(sub): the occurrences that do not overlap, from the left.
RECURSIVE count(_, _)
count(s, sub) ==
    IF Len(s) < Len(sub) THEN 0
    ELSE IF startswith(s, sub)
         THEN 1 + count(SubSeq(s, Len(sub) + 1, Len(s)), sub)
         ELSE count(Tail(s), sub)

\* The value of a decimal digit.
digit_value(c) ==
    CASE c = "0" -> 0 [] c = "1" -> 1 [] c = "2" -> 2 [] c = "3" -> 3
      [] c = "4" -> 4 [] c = "5" -> 5 [] c = "6" -> 6 [] c = "7" -> 7
      [] c = "8" -> 8 [] c = "9" -> 9

\* The value of a string of decimal digits.
RECURSIVE decimal(_)
decimal(digits) ==
    IF digits = <<>> THEN 0
    ELSE 10 * decimal(SubSeq(digits, 1, Len(digits) - 1))
         + digit_value(digits[Len(digits)])

\* int(part): the value of the digits between leading and trailing blanks.
int(part) == decimal(strip(part))

\* int(part) raises ValueError: between the blanks there is no digit, or a
\* character that is no digit (signs and underscores are not part of the
\* strings considered here).
int_raises(part) ==
    strip(part) = <<>> \/ \E i \in DOMAIN strip(part) : strip(part)[i] \notin Digit

\* Variant of is_valid_ipv4 without the test of a leading zero.
is_valid_ipv4_padded(ip) ==
    LET parts == split(ip, ".") IN
    IF Len(parts) # 4 THEN FALSE
    ELSE \A k \in DOMAIN parts :
             /\ ~int_raises(parts[k])
             /\ ~(int(parts[k]) < 0 \/ int(parts[k]) > 255)

\* is_valid_ipv4: four parts, each an integer in 0..255 without a leading
\* zero; an exception gives False as well.
is_valid_ipv4(ip) ==
    LET parts == split(ip, ".") IN
    IF Len(parts) # 4 THEN FALSE
    ELSE \A k \in DOMAIN parts :
             /\ ~int_raises(parts[k])
             /\ ~(int(parts[k]) < 0 \/ int(parts[k]) > 255)
             /\ ~(startswith(parts[k], <<"0">>) /\ Len(parts[k]) > 1)

\* len([p for p in parts if p])
non_empty(parts) == Len(SelectSeq(parts, LAMBDA p : p # <<>>))

\* The parts whose number is counted when the address has a "::".
compressed_parts(ip) ==
    LET parts == split(ip, ":")
        p1 == IF startswith(ip, <<":", ":">>) THEN Tail(parts) ELSE parts
    IN IF endswith(ip, <<":", ":">>) THEN SubSeq(p1, 1, Len(p1) - 1) ELSE p1

\* int(part, 16) raises ValueError: between the blanks there is no digit,
\* or a character that is no hexadecimal digit (prefixes, signs and
\* underscores are not part of the strings considered here).
int16_raises(part) ==
    strip(part) = <<>>
    \/ \E i \in DOMAIN strip(part) : strip(part)[i] \notin HexDigit

\* for part in ip.split(':'): a non-empty part has at most 4 characters and
\* int(part, 16) accepts it.
parts_are_hex(ip) ==
    LET parts == split(ip, ":") IN
    \A k \in DOMAIN parts :
        parts[k] # <<>> =>
            /\ ~(Len(parts[k]) > 4)
            /\ ~int16_raises(parts[k])

\* Variant of is_valid_ipv6 without the test ip.count('::') > 1.
is_valid_ipv6_any_count(ip) ==
    IF ip = <<":", ":">> \/ ip = <<":", ":", ":">> THEN FALSE
    ELSE IF contains(ip, <<":", ":", ":">>) THEN FALSE
    ELSE IF contains(ip, <<":", ":">>)
         THEN LET n == non_empty(compressed_parts(ip))
                  double_colon_parts == 8 - n
              IN IF n + double_colon_parts > 8 THEN FALSE
                 ELSE parts_are_hex(ip)
         ELSE IF Len(split(ip, ":")) # 8 THEN FALSE
              ELSE parts_are_hex(ip)

\* is_valid_ipv6
is_valid_ipv6(ip) ==
    IF ip = <<":", ":">> \/ ip = <<":", ":", ":">> THEN FALSE
    ELSE IF contains(ip, <<":", ":", ":">>) THEN FALSE
    ELSE IF count(ip, <<":", ":">>) > 1 THEN FALSE
    ELSE IF contains(ip, <<":", ":">>)
         THEN LET n == non_empty(compressed_parts(ip))
                  double_colon_parts == 8 - n
              IN IF n + double_colon_parts > 8 THEN FALSE
                 ELSE parts_are_hex(ip)
         ELSE IF Len(split(ip, ":")) # 8 THEN FALSE
              ELSE parts_are_hex(ip)

\* The matches of one family that its validator accepts, as (ip, type).
valid_matches(text, kind) ==
    LET found == re_finditer(text, 1, kind)
        valid == SelectSeq(found,
                     LAMBDA ip : IF kind = "ipv4" THEN is_valid_ipv4(ip)
                                 ELSE is_valid_ipv6(ip))
    IN [i \in DOMAIN valid |-> [ip |-> valid[i], type |-> kind]]

\* Variant of the order of the result: the IPv6 matches first.
extract_ips_from_chars_ipv6_first(text, cfg) ==
    (IF cfg.enable_ipv6 THEN valid_matches(text, "ipv6") ELSE <<>>)
    \o (IF cfg.enable_ipv4 THEN valid_matches(text, "ipv4") ELSE <<>>)

\* extract_ips_from_text on a string of characters: the valid IPv4 matches
\* in the order of the text, then the valid IPv6 matches in the order of
\* the text, each family only when it is enabled.
extract_ips_from_chars(text, cfg) ==
    (IF cfg.enable_ipv4 THEN valid_matches(text, "ipv4") ELSE <<>>)
    \o (IF cfg.enable_ipv6 THEN valid_matches(text, "ipv6") ELSE <<>>)

Configs == [enable_ipv4 : BOOLEAN, enable_ipv6 : BOOLEAN,
            notifications : BOOLEAN]

\* ------------------------------------------- NotificationManager (chain)
\* Outcome of one backend call method_func(title, message, duration).
Outcomes == {"True", "False", "raise"}

\* init_notification_methods: plyer, then win10toast when it is importable
\* and ToastNotifier() can be built, then the tray backend when the parent
\* already has a tray_icon attribute, then the custom window.
init_notification_methods(win10toast_available, toaster_ok, has_tray_icon) ==
    <<"plyer">>
    \o (IF win10toast_available /\ toaster_ok THEN <<"win10toast">> ELSE <<>>)
    \o (IF has_tray_icon THEN <<"tray">> ELSE <<>>)
    \o <<"custom">>

\* Variant of the loop that does not return at the first success: every
\* backend is called and the call succeeds if one of them did.
RECURSIVE show_notification_loop_no_stop(_, _, _, _)
show_notification_loop_no_stop(methods, out, i, attempts) ==
    IF i > Len(methods)
    THEN [result |-> \E k \in 1..Len(methods) : out[k] = "True",
          attempts |-> attempts, raised |-> FALSE]
    ELSE show_notification_loop_no_stop(methods, out, i + 1,
                                        Append(attempts, methods[i]))

\* Variant of the loop without the try/except around the backend call: an
\* exception of a backend leaves show_notification.
RECURSIVE show_notification_loop_no_except(_, _, _, _)
show_notification_loop_no_except(methods, out, i, attempts) ==
    IF i > Len(methods)
    THEN [result |-> FALSE, attempts |-> attempts, raised |-> FALSE]
    ELSE IF out[i] = "True"
         THEN [result |-> TRUE, attempts |-> Append(attempts, methods[i]),
               raised |-> FALSE]
         ELSE IF out[i] = "raise"
              THEN [result |-> FALSE,
                    attempts |-> Append(attempts, methods[i]),
                    raised |-> TRUE]
              ELSE show_notification_loop_no_except(
                       methods, out, i + 1, Append(attempts, methods[i]))

\* The for loop of show_notification from backend i on: a backend that
\* returns a true value ends the call with True, one that returns a false
\* value or raises is followed by the next one.
RECURSIVE show_notification_loop(_, _, _, _)
show_notification_loop(methods, out, i, attempts) ==
    IF i > Len(methods)
    THEN [result |-> FALSE, attempts |-> attempts, raised |-> FALSE]
    ELSE IF out[i] = "True"
         THEN [result |-> TRUE, attempts |-> Append(attempts, methods[i]),
               raised |-> FALSE]
         ELSE show_notification_loop(methods, out, i + 1,
                                     Append(attempts, methods[i]))

show_notification(methods, out) ==
    IF methods = <<>>
    THEN [result |-> FALSE, attempts |-> <<>>, raised |-> FALSE]
    ELSE show_notification_loop(methods, out, 1, <<>>)

\* ------------------------------------------------------- check_clipboard
\* Variant of the gate without the comparison with the last content.
is_unchanged_empty_only(content, last) == content = <<>>

\* The gate of check_clipboard: empty or unchanged content returns at once.
is_unchanged(content, last) == content = <<>> \/ content = last

\* The for loop over ips_found: index of the first entry whose address
\* differs from current_ip (the loop breaks there), 0 when there is none.
\* Variant of the loop without the comparison with current_ip: the first
\* match is always taken.
first_no_dedup(ips_found, cur) == IF ips_found = <<>> THEN 0 ELSE 1

\* Variant of the loop that looks at the first match only.
first_head_only(ips_found, cur) ==
    IF ips_found # <<>> /\ ips_found[1].ip # cur THEN 1 ELSE 0

RECURSIVE first_new_from(_, _, _)
first_new_from(ips_found, cur, k) ==
    IF k > Len(ips_found) THEN 0
    ELSE IF ips_found[k].ip # cur THEN k
         ELSE first_new_from(ips_found, cur, k + 1)

first_new(ips_found, cur) == first_new_from(ips_found, cur, 1)

\* Variant that waits for the response of the lookup before it returns.
start_thread_wait(ths, ip, ip_type) ==
    Append(ths, [ip |-> ip, type |-> ip_type, pc |-> "save",
                 body |-> "full", saved |-> "none"])

\* threading.Thread(target=self.query_ip_info, args=(ip, ip_type)).start():
\* the new thread has not yet issued its request.
start_thread(ths, ip, ip_type) ==
    Append(ths, [ip |-> ip, type |-> ip_type, pc |-> "request",
                 body |-> None, saved |-> "none"])

\* update_current_ip_display(ip): the closure update is posted with
\* QTimer.singleShot(0, update) from the GUI thread itself and runs when the
\* handler returns to the event loop, before the next timer event. It sets
\* the label to ip, or to "none" and clears the detail text.
update_current_ip_display(widgets, ip) ==
    IF ip # None
    THEN [label |-> ip, detail |-> widgets.detail]
    ELSE [label |-> None, detail |-> None]

\* Variant without the except clause: the exception leaves the slot and the
\* timer no longer fires.
check_clipboard_reraise ==
    /\ timer_active' = FALSE
    /\ UNCHANGED <<config, last_clipboard_content, current_ip, display,
                   events, threads, history, clipboard_history,
                   notification_methods, last_ip, last_notification,
                   changes,
                   matcher, db_call,
                   side_vars>>

\* except Exception in check_clipboard: the error is logged, nothing else.
check_clipboard_except ==
    UNCHANGED <<timer_active, config, last_clipboard_content, current_ip,
                display, events, threads, history, clipboard_history,
                notification_methods, last_ip, last_notification, changes,
                matcher, db_call,
                side_vars>>

\* add_clipboard_record: one row, or no row and False when sqlite fails.
add_clipboard_record(rows, content, contains_ip, now, db_ok) ==
    IF db_ok
    THEN Append(rows, [time |-> now, content |-> content,
                       contains_ip |-> contains_ip])
    ELSE rows

\* check_clipboard when pyperclip.paste() returns raw (paste_ok) or raises,
\* and the snapshot insert succeeds (db_ok) or fails.
check_clipboard(raw, paste_ok, db_ok) ==
    IF ~paste_ok
    THEN check_clipboard_except
    ELSE
      LET content == strip(raw) IN
      IF is_unchanged(content, last_clipboard_content)
      THEN UNCHANGED vars
      ELSE
        LET contains_ip == Len(extract_ips_from_text(content, config)) > 0
            ips_found == extract_ips_from_text(content, config)
            k == first_new(ips_found, current_ip)
        IN
        /\ changes < MaxChanges
        /\ changes' = changes + 1
        /\ clipboard_history' =
              add_clipboard_record(clipboard_history, content,
                                   contains_ip, FirstSecond, db_ok)
        /\ last_clipboard_content' = content
        /\ IF ips_found # <<>>
           THEN IF k # 0
                THEN /\ current_ip' = ips_found[k].ip
                     /\ display' = update_current_ip_display(
                                       display, ips_found[k].ip)
                     /\ threads' = start_thread(threads, ips_found[k].ip,
                                                ips_found[k].type)
                ELSE UNCHANGED <<current_ip, display, threads>>
           ELSE /\ display' = update_current_ip_display(display, None)
                /\ UNCHANGED <<current_ip, threads>>
        /\ UNCHANGED <<timer_active, config, events, history,
                       notification_methods, last_ip, last_notification,
                       matcher, db_call, side_vars>>

\* The timeout signal of clipboard_timer calls check_clipboard.
Tick ==
    /\ timer_active
    /\ \/ check_clipboard(<<>>, FALSE, TRUE)
       \/ \E raw \in RawTexts, db_ok \in BOOLEAN :
              check_clipboard(raw, TRUE, db_ok)

\* --------------------------------------------------------- query_ip_info
\* Outcome of requests.get(url, timeout=10) followed by response.json():
\* an exception (timeout, connection error, body that is not JSON), or a
\* status code with a decoded body: a dict with a 'data' object or a dict
\* without one.
Statuses == {200, 500}
Bodies == {"full", "nodata"}

\* Variant of the order: show_ip_details before save_to_history.
query_ip_info_next_show_first(pc) ==
    CASE pc = "request" -> "show"
      [] pc = "show" -> "save"
      [] pc = "save" -> "done"
      [] OTHER -> "done"

\* The order of the steps of query_ip_info after a 200 response:
\* save_to_history, then show_ip_details, then the function returns.
query_ip_info_next(pc) ==
    CASE pc = "request" -> "save"
      [] pc = "save" -> "show"
      [] pc = "show" -> "done"
      [] OTHER -> "done"

\* Thread i of ths continues at pc with the locals loc; a thread whose
\* target has returned is gone.
continue_thread(ths, i, pc, loc) ==
    IF pc = "done"
    THEN [k \in 1..(Len(ths) - 1) |-> IF k < i THEN ths[k] ELSE ths[k + 1]]
    ELSE [ths EXCEPT ![i] = [loc EXCEPT !.pc = pc]]

\* Variant without the test of the outcome: after an exception or a status
\* other than 200 the thread goes on as after a 200 response.
Response_any_outcome(i, raises, status, body) ==
    /\ threads[i].pc = "request"
    /\ threads' = continue_thread(threads, i, query_ip_info_next("request"),
                                  [threads[i] EXCEPT !.body = body])
    /\ UNCHANGED <<timer_active, config, last_clipboard_content,
                   current_ip, display, events,
                   history, clipboard_history, notification_methods,
                   last_ip, last_notification, changes,
                   matcher, db_call,
                   side_vars>>

\* requests.get and response.json() of thread i return or raise; an
\* exception and a status other than 200 are logged and the thread ends.
Response(i, raises, status, body) ==
    /\ threads[i].pc = "request"
    /\ threads' =
           IF raises \/ status # 200
           THEN continue_thread(threads, i, "done", threads[i])
           ELSE continue_thread(threads, i, query_ip_info_next("request"),
                                [threads[i] EXCEPT !.body = body])
    /\ UNCHANGED <<timer_active, config, last_clipboard_content,
                   current_ip, display, events,
                   history, clipboard_history, notification_methods,
                   last_ip, last_notification, changes,
                   matcher, db_call,
                   side_vars>>

\* Variant of the insert: the new row replaces the rows of the table.
add_record_replace(rows, ip, ip_type, now, db_ok) ==
    IF db_ok
    THEN <<[time |-> now, ip |-> ip, type |-> ip_type]>>
    ELSE rows

\* DatabaseManager.add_record: inserts one row and returns True, or a
\* failing sqlite call raises inside the try block and the method returns
\* False without a row. The location fields of the row are left out.
add_record(rows, ip, ip_type, now, db_ok) ==
    IF db_ok
    THEN Append(rows, [time |-> now, ip |-> ip, type |-> ip_type])
    ELSE rows

\* save_to_history of thread i.
SaveToHistory(i, db_ok) ==
    /\ threads[i].pc = "save"
    /\ LET t == threads[i] IN
       /\ history' = add_record(history, t.ip, t.type, FirstSecond, db_ok)
       /\ threads' =
              continue_thread(threads, i, query_ip_info_next("save"),
                  [t EXCEPT !.saved = IF db_ok THEN "ok" ELSE "failed"])
    /\ UNCHANGED <<timer_active, config, last_clipboard_content,
                   current_ip, display, events,
                   clipboard_history, notification_methods, last_ip,
                   last_notification, changes,
                   matcher, db_call,
                   side_vars>>

\* QTimer.singleShot(0, update_detail) in show_ip_details: the closure,
\* which sets the detail text of the address that was looked up, is queued
\* for the GUI thread.
post_update_detail(evs, ip) == Append(evs, ip)

\* show_ip_details of thread i: the detail update is posted and, with
\* notifications enabled, show_notification is called; it sets last_ip and
\* its result is not used.
ShowIpDetails(i) ==
    /\ threads[i].pc = "show"
    /\ LET t == threads[i] IN
       /\ threads' = continue_thread(threads, i, query_ip_info_next("show"), t)
       /\ events' = post_update_detail(events, t.ip)
       /\ IF config.notifications
          THEN last_ip' = t.ip
          ELSE UNCHANGED last_ip
    /\ UNCHANGED <<timer_active, config, last_clipboard_content,
                   current_ip, display, history,
                   clipboard_history, notification_methods,
                   last_notification, changes,
                   matcher, db_call,
                   side_vars>>

\* ------------------------------------------------------------ GUI thread
\* The event loop runs the oldest posted update_detail callback:
\* ip_detail_text.setPlainText(detail_text) for the address looked up.
ProcessEvent ==
    /\ events # <<>>
    /\ display' = [display EXCEPT !.detail = Head(events)]
    /\ events' = Tail(events)
    /\ UNCHANGED <<timer_active, config, last_clipboard_content,
                   current_ip, threads, history, clipboard_history,
                   notification_methods, last_ip, last_notification, changes,
                   matcher, db_call,
                   side_vars>>

\* --------------------------------------------- the polling timer, settings
\* check_interval of default_config: 2.0 seconds.
DefaultInterval == 200

\* Values of check_interval in data/config.json, in hundredths of a second:
\* below, at and above the lower end of the spin box, and the default.
FileIntervals == {10, 25, 50, 201, DefaultInterval}

\* Values the user leaves in interval_spin (two decimals, 0.5 to 10.0).
SpinValues == {50, 100, 201, 1000}

\* The hundredths h for which the double h/100 times 1000 lies just below
\* the whole number h*10, for h/100 in the range of the spin box.
TruncatedHundredths == {201, 203, 402, 406, 803, 804, 811, 812, 819}

\* int(self.config.check_interval * 1000): the product of two doubles,
\* truncated to an integer.
int_ms(hundredths) ==
    IF hundredths \in TruncatedHundredths THEN hundredths * 10 - 1
    ELSE hundredths * 10

\* QDoubleSpinBox.setValue with the range set by setRange(0.5, 10.0).
spin_set_value(hundredths) ==
    IF hundredths < 50 THEN 50
    ELSE IF hundredths > 1000 THEN 1000 ELSE hundredths

\* No SettingsWindow is open.
Closed == [pc |-> "closed"]

\* Variant of start_clipboard_monitor after a save in which the running
\* timer was not stopped: the new QTimer runs next to it.
restart_monitor_no_stop(timers, hundredths) ==
    Append(timers, int_ms(hundredths))

\* self.clipboard_timer.stop() followed by start_clipboard_monitor(): the
\* timer that self.clipboard_timer refers to, the one started last, stops
\* and a new QTimer is started with the interval of the configuration.
restart_monitor(timers, hundredths) ==
    Append(SubSeq(timers, 1, Len(timers) - 1), int_ms(hundredths))

\* The old variables, which the settings dialog leaves alone but for config.
monitor_rest ==
    <<timer_active, last_clipboard_content, current_ip, display, events,
      threads, history, clipboard_history, notification_methods, last_ip,
      last_notification, changes, matcher, db_call>>

\* show_settings: SettingsWindow is built and load_settings fills its
\* widgets from the configuration; exec() then runs the dialog.
ShowSettings ==
    /\ settings = Closed
    /\ settings' = [pc |-> "open",
                    interval_spin |-> spin_set_value(check_interval),
                    notify_cb |-> config.notifications,
                    ipv4_cb |-> config.enable_ipv4,
                    ipv6_cb |-> config.enable_ipv6]
    /\ UNCHANGED <<monitor_rest, config, check_interval, clipboard_timers,
                   conns, update_check, api_checker, closing>>

\* The user edits the widgets of the open dialog.
EditSettings(interval, notify, ipv4, ipv6) ==
    /\ settings.pc = "open"
    /\ settings' = [settings EXCEPT !.interval_spin = interval,
                                    !.notify_cb = notify,
                                    !.ipv4_cb = ipv4,
                                    !.ipv6_cb = ipv6]
    /\ UNCHANGED <<monitor_rest, config, check_interval, clipboard_timers,
                   conns, update_check, api_checker, closing>>

\* save_settings: the configuration takes the values of the widgets and the
\* dialog is accepted.
SaveSettings ==
    /\ settings.pc = "open"
    /\ check_interval' = settings.interval_spin
    /\ config' = [enable_ipv4 |-> settings.ipv4_cb,
                  enable_ipv6 |-> settings.ipv6_cb,
                  notifications |-> settings.notify_cb]
    /\ settings' = [pc |-> "accepted"]
    /\ UNCHANGED <<monitor_rest, clipboard_timers,
                   conns, update_check, api_checker, closing>>

\* The cancel button: reject(), exec() returns 0 and show_settings ends.
CancelSettings ==
    /\ settings.pc = "open"
    /\ settings' = Closed
    /\ UNCHANGED <<monitor_rest, config, check_interval, clipboard_timers,
                   conns, update_check, api_checker, closing>>

\* show_settings after exec() returned 1: the monitor is restarted.
RestartMonitor ==
    /\ settings.pc = "accepted"
    /\ clipboard_timers' = restart_monitor(clipboard_timers, check_interval)
    /\ settings' = Closed
    /\ UNCHANGED <<monitor_rest, config, check_interval,
                   conns, update_check, api_checker, closing>>

\* No store call is in progress, no update check is made, the APIChecker
\* runs and the application is not closing.
QuietThreads ==
    /\ conns = <<>>
    /\ update_check = [pc |-> NoCall]
    /\ api_checker = [running |-> TRUE, pc |-> "while", sleeps |-> 0]
    /\ closing = "no"

\* The configuration has the default interval, start_clipboard_monitor has
\* started the timer and no dialog is open.
QuietSide ==
    /\ check_interval = DefaultInterval
    /\ clipboard_timers = <<int_ms(DefaultInterval)>>
    /\ settings = Closed
    /\ QuietThreads

\* IPAnalyzer.__init__ with the check_interval of data/config.json:
\* load_config takes the value of the file as it is, and
\* start_clipboard_monitor starts the timer with it.
InitTimer ==
    /\ timer_active = TRUE
    /\ config \in Configs
    /\ last_clipboard_content = <<>>
    /\ current_ip = None
    /\ display = [label |-> None, detail |-> None]
    /\ events = <<>>
    /\ threads = <<>>
    /\ history = <<>>
    /\ clipboard_history = <<>>
    /\ notification_methods = init_notification_methods(FALSE, FALSE, FALSE)
    /\ last_ip = None
    /\ last_notification =
           [ip |-> None, out |-> <<>>,
            call |-> [result |-> FALSE, attempts |-> <<>>, raised |-> FALSE]]
    /\ changes = 0
    /\ matcher = [text |-> <<>>, call |-> NoCall, result |-> <<>>]
    /\ db_call = [op |-> NoCall]
    /\ check_interval \in FileIntervals
    /\ clipboard_timers = <<int_ms(check_interval)>>
    /\ settings = Closed
    /\ QuietThreads

NextTimer ==
    \/ ShowSettings
    \/ \E interval \in SpinValues, notify \in BOOLEAN, ipv4 \in BOOLEAN,
          ipv6 \in BOOLEAN : EditSettings(interval, notify, ipv4, ipv6)
    \/ SaveSettings
    \/ CancelSettings
    \/ RestartMonitor

SpecTimer == InitTimer /\ [][NextTimer]_vars

\* ---------------------------------------------------------------- system
\* IPAnalyzer.__init__: the NotificationManager is built before setup_tray
\* runs, so the parent has no tray_icon attribute at that point.
Init ==
    /\ timer_active = TRUE
    /\ config \in Configs
    /\ last_clipboard_content = <<>>
    /\ current_ip = None
    /\ display = [label |-> None, detail |-> None]
    /\ events = <<>>
    /\ threads = <<>>
    /\ history = <<>>
    /\ clipboard_history = <<>>
    /\ \E available \in BOOLEAN, toaster_ok \in BOOLEAN :
           notification_methods =
               init_notification_methods(available, toaster_ok, FALSE)
    /\ last_ip = None
    /\ last_notification =
           [ip |-> None, out |-> <<>>,
            call |-> [result |-> FALSE, attempts |-> <<>>, raised |-> FALSE]]
    /\ changes = 0
    /\ matcher = [text |-> <<>>, call |-> NoCall, result |-> <<>>]
    /\ db_call = [op |-> NoCall]
    /\ QuietSide

Next ==
    \/ Tick
    \/ \E i \in DOMAIN threads, raises \in BOOLEAN, status \in Statuses,
          body \in Bodies : Response(i, raises, status, body)
    \/ \E i \in DOMAIN threads, db_ok \in BOOLEAN : SaveToHistory(i, db_ok)
    \/ \E i \in DOMAIN threads : ShowIpDetails(i)
    \/ ProcessEvent

Spec == Init /\ [][Next]_vars

\* A direct call show_notification(title, message, ip, duration) in which
\* backend i behaves as out[i]; last_notification keeps the call's outcome.
ShowNotification(ip, out) ==
    /\ last_ip' = ip
    /\ last_notification' =
           [ip |-> ip, out |-> out,
            call |-> show_notification(notification_methods, out)]
    /\ UNCHANGED <<timer_active, config, last_clipboard_content, current_ip,
                   display, events, threads, history, clipboard_history,
                   notification_methods, changes,
                   matcher, db_call,
                   side_vars>>

NextNotify ==
    \E ip \in Addresses \cup {None} :
        \E out \in [1..Len(notification_methods) -> Outcomes] :
            ShowNotification(ip, out)

\* The notification chain on its own.
SpecNotify == Init /\ [][NextNotify]_vars

\* --------------------------------------------------- the matcher on its own
\* s1, sep, s2, sep, ...: str.join
RECURSIVE Join(_, _)
Join(parts, sep) ==
    IF parts = <<>> THEN <<>>
    ELSE IF Len(parts) = 1 THEN parts[1]
    ELSE parts[1] \o sep \o Join(Tail(parts), sep)

\* Octets as they are written: single digits, two and three digits for each
\* alternative of the octet pattern, values above 255 and a padded octet.
OctetSamples ==
    { <<"0">>, <<"1", "0">>, <<"1", "9", "9">>, <<"2", "4", "9">>,
      <<"2", "5", "5">>, <<"2", "5", "6">>, <<"3", "0", "0">>, <<"0", "1">> }

\* a.b.c.d for all sample octets.
DottedQuads ==
    { Join(q, <<".">>) : q \in [1..4 -> OctetSamples] }

\* Dotted sequences of five groups, alone and after a word.
DottedQuints ==
    { prefix \o Join(q, <<".">>) :
          prefix \in { <<>>, <<"v", "e", "r", "s", "i", "o", "n", " ">> },
          q \in [1..5 -> { <<"1">>, <<"2", "5">> }] }

\* Groups of an IPv6 literal as they are written.
GroupSamples == { <<"1">>, <<"f", "F", "0", "a">> }

\* The full form: 8 groups, each of the sample groups.
FullForms == { Join(g, <<":">>) : g \in [1..8 -> GroupSamples] }

\* n groups 1:1:...:1
Groups(n) == Join([i \in 1..n |-> <<"1">>], <<":">>)

\* Colon-separated runs of 1 to MaxGroups groups without a "::"; the run
\* 1:2:3:4:5:6:7:8:9 with its groups numbered.
Uncompressed ==
    { Groups(n) : n \in 1..MaxGroups }
    \cup { Join(<< <<"1">>, <<"2">>, <<"3">>, <<"4">>, <<"5">>, <<"6">>,
                   <<"7">>, <<"8">>, <<"9">> >>, <<":">>) }

\* a groups, a run of colons, b groups: "::" and ":::" with 0 to MaxSide
\* groups on each side.
Compressed ==
    { Groups(a) \o colons \o Groups(b) :
          a \in 0..MaxSide, b \in 0..MaxSide,
          colons \in { <<":", ":">>, <<":", ":", ":">> } }

\* Two compressions in one literal.
TwiceCompressed ==
    { <<"1", ":", ":", "2", ":", ":", "3">>,
      <<":", ":", "1", ":", ":">>,
      <<"1", ":", ":", "2", ":", "3", ":", ":", "4">> }

\* Literals of both families for texts with several addresses.
Ipv4Literals == { <<"1", ".", "2", ".", "3", ".", "4">>,
                  <<"9", ".", "9", ".", "9", ".", "9">> }
Ipv6Literals == { <<"a", ":", ":", "b">>, <<"f", "e", "8", "0", ":", ":", "7">> }

\* Two different literals separated by a blank, and an IPv4-mapped literal.
Pairs ==
    { a \o <<" ">> \o b :
          a \in Ipv4Literals \cup Ipv6Literals,
          b \in Ipv4Literals \cup Ipv6Literals }
    \cup { <<":", ":", "f", "f", "f", "f", ":", "1", ".", "2", ".", "3",
             ".", "4">> }

\* The strings given to the matcher and to the validators.
MatchTexts ==
    DottedQuads \cup DottedQuints \cup FullForms \cup Uncompressed
    \cup Compressed \cup TwiceCompressed \cup Pairs

\* extract_ips_from_text(matcher.text)
ExtractIps ==
    /\ matcher.call = NoCall
    /\ matcher' = [matcher EXCEPT
                      !.call = "extract_ips_from_text",
                      !.result = extract_ips_from_chars(matcher.text, config)]
    /\ UNCHANGED <<timer_active, config, last_clipboard_content, current_ip,
                   display, events, threads, history, clipboard_history,
                   notification_methods, last_ip, last_notification,
                   changes, db_call,
                   side_vars>>

\* is_valid_ipv4(matcher.text)
IsValidIpv4 ==
    /\ matcher.call = NoCall
    /\ matcher' = [matcher EXCEPT
                      !.call = "is_valid_ipv4",
                      !.result = is_valid_ipv4(matcher.text)]
    /\ UNCHANGED <<timer_active, config, last_clipboard_content, current_ip,
                   display, events, threads, history, clipboard_history,
                   notification_methods, last_ip, last_notification,
                   changes, db_call,
                   side_vars>>

\* is_valid_ipv6(matcher.text)
IsValidIpv6 ==
    /\ matcher.call = NoCall
    /\ matcher' = [matcher EXCEPT
                      !.call = "is_valid_ipv6",
                      !.result = is_valid_ipv6(matcher.text)]
    /\ UNCHANGED <<timer_active, config, last_clipboard_content, current_ip,
                   display, events, threads, history, clipboard_history,
                   notification_methods, last_ip, last_notification,
                   changes, db_call,
                   side_vars>>

\* The application before any clipboard text was seen, with a string for
\* the matcher; the notification setting has no part in matching.
InitMatch ==
    /\ timer_active = TRUE
    /\ config \in {c \in Configs : c.notifications}
    /\ last_clipboard_content = <<>>
    /\ current_ip = None
    /\ display = [label |-> None, detail |-> None]
    /\ events = <<>>
    /\ threads = <<>>
    /\ history = <<>>
    /\ clipboard_history = <<>>
    /\ notification_methods = init_notification_methods(FALSE, FALSE, FALSE)
    /\ last_ip = None
    /\ last_notification =
           [ip |-> None, out |-> <<>>,
            call |-> [result |-> FALSE, attempts |-> <<>>, raised |-> FALSE]]
    /\ changes = 0
    /\ matcher \in [text : MatchTexts, call : {NoCall}, result : {<<>>}]
    /\ db_call = [op |-> NoCall]
    /\ QuietSide

NextMatch ==
    \/ ExtractIps
    \/ IsValidIpv4
    \/ IsValidIpv6

SpecMatch == InitMatch /\ [][NextMatch]_vars

\* ------------------------------------------------- DatabaseManager on its own
\* The seconds datetime.now() can show while the store is used.
Times == {FirstSecond, FirstSecond + 1}

\* Keywords of a search: the empty keyword, an address of each family, a
\* word in both cases and the two characters LIKE reads as wildcards.
Percent == "%"
Underscore == "_"
UpperWord == "SERVER"
Keywords == {"", IPV4_A, IPV6_A, Word, UpperWord, Percent, Underscore}

\* Contents of clipboard snapshots.
Contents == { <<IPV4_A>>, <<Word>> }

\* The characters of the sample strings.
chars_of(token) ==
    CASE token = IPV4_A ->
             <<"2", "0", "3", ".", "0", ".", "1", "1", "3", ".", "5">>
      [] token = IPV6_A -> <<"f", "e", "8", "0", ":", ":", "1">>
      [] token = Word -> <<"s", "e", "r", "v", "e", "r">>
      [] token = UpperWord -> <<"S", "E", "R", "V", "E", "R">>
      [] token = Space -> <<" ">>
      [] token = Percent -> <<"%">>
      [] token = Underscore -> <<"_">>
      [] OTHER -> <<>>

\* The characters of a text given as a sequence of tokens.
text_chars(text) ==
    Flatten([i \in DOMAIN text |-> chars_of(text[i])])

UpperCase ==
    <<"A", "B", "C", "D", "E", "F", "G", "H", "I", "J", "K", "L", "M",
      "N", "O", "P", "Q", "R", "S", "T", "U", "V", "W", "X", "Y", "Z">>

LowerCase ==
    <<"a", "b", "c", "d", "e", "f", "g", "h", "i", "j", "k", "l", "m",
      "n", "o", "p", "q", "r", "s", "t", "u", "v", "w", "x", "y", "z">>

\* LIKE compares ASCII letters without regard to case.
fold(c) ==
    IF \E i \in DOMAIN UpperCase : UpperCase[i] = c
    THEN LowerCase[CHOOSE i \in DOMAIN UpperCase : UpperCase[i] = c]
    ELSE c

\* The LIKE operator of SQLite on characters: % in the pattern stands for
\* any run of characters, _ for any one character, and every other
\* character for itself in either case.
RECURSIVE sql_like(_, _)
sql_like(v, p) ==
    IF p = <<>> THEN v = <<>>
    ELSE IF Head(p) = "%"
         THEN \E k \in 0..Len(v) :
                  sql_like(SubSeq(v, k + 1, Len(v)), Tail(p))
         ELSE /\ v # <<>>
              /\ Head(p) = "_" \/ fold(Head(v)) = fold(Head(p))
              /\ sql_like(Tail(v), Tail(p))

\* value LIKE ? with the parameter f'%{keyword}%': the keyword is put
\* between two % as it is.
like(value, keyword) == sql_like(value, <<"%">> \o keyword \o <<"%">>)

\* The orders in which SELECT ... ORDER BY time DESC can return rows: any
\* order of the rows in which the times do not increase (SQL leaves the
\* order of rows of the same second open).
time_desc_orders(rows) ==
    { [i \in DOMAIN rows |-> rows[p[i]]] :
          p \in { q \in [DOMAIN rows -> DOMAIN rows] :
                      /\ \A i, j \in DOMAIN rows : i # j => q[i] # q[j]
                      /\ \A i, j \in DOMAIN rows :
                             i < j => rows[q[i]].time >= rows[q[j]].time } }

\* get_history and get_clipboard_history (the limit of 100 rows is above
\* the number of rows here): the possible results; [] when sqlite fails.
get_history(rows, db_ok) ==
    IF db_ok THEN time_desc_orders(rows) ELSE { <<>> }

\* search_history: the rows whose ip is LIKE the keyword (the location
\* columns are left out); [] when sqlite fails.
search_history(rows, keyword, db_ok) ==
    IF db_ok
    THEN time_desc_orders(
             SelectSeq(rows, LAMBDA r : like(chars_of(r.ip),
                                             chars_of(keyword))))
    ELSE { <<>> }

\* search_clipboard_history: the rows whose content is LIKE the keyword.
search_clipboard_history(rows, keyword, db_ok) ==
    IF db_ok
    THEN time_desc_orders(
             SelectSeq(rows, LAMBDA r : like(text_chars(r.content),
                                             chars_of(keyword))))
    ELSE { <<>> }

\* Variant of clear_history in which the rows are gone although the call
\* failed and returned False.
clear_history_despite_failure(rows, db_ok) ==
    [rows |-> <<>>, result |-> db_ok]

\* clear_history and clear_clipboard_history: DELETE FROM the table; the
\* rows left and the value returned.
clear_history(rows, db_ok) ==
    [rows |-> IF db_ok THEN <<>> ELSE rows, result |-> db_ok]

\* Variant of the return value: True whenever the statement ran.
delete_record_by_ip_and_time_ran(rows, ip, time_str, db_ok) ==
    [rows |-> IF db_ok
              THEN SelectSeq(rows,
                             LAMBDA r : ~(r.ip = ip /\ r.time = time_str))
              ELSE rows,
     result |-> db_ok]

\* delete_record_by_ip_and_time: DELETE ... WHERE ip = ? AND time = ?, and
\* cursor.rowcount > 0 is returned; False without a change when sqlite
\* fails.
delete_record_by_ip_and_time(rows, ip, time_str, db_ok) ==
    LET kept == SelectSeq(rows, LAMBDA r : ~(r.ip = ip /\ r.time = time_str))
    IN [rows |-> IF db_ok THEN kept ELSE rows,
        result |-> db_ok /\ Len(rows) - Len(kept) > 0]

\* delete_clipboard_record_by_time: DELETE ... WHERE time = ?
delete_clipboard_record_by_time(rows, time_str, db_ok) ==
    LET kept == SelectSeq(rows, LAMBDA r : r.time # time_str)
    IN [rows |-> IF db_ok THEN kept ELSE rows,
        result |-> db_ok /\ Len(rows) - Len(kept) > 0]

AddRecord(ip, now, db_ok) ==
    /\ Len(history) < MaxRows
    /\ history' = add_record(history, ip,
                             IF ip \in IPv4Tokens THEN "ipv4" ELSE "ipv6",
                             now, db_ok)
    /\ db_call' = [op |-> "add_record", result |-> db_ok]
    /\ UNCHANGED <<timer_active, config, last_clipboard_content, current_ip,
                   display, events, threads, clipboard_history,
                   notification_methods, last_ip, last_notification,
                   changes, matcher,
                   side_vars>>

GetHistory(db_ok) ==
    /\ \E res \in get_history(history, db_ok) :
           db_call' = [op |-> "get_history", result |-> res]
    /\ UNCHANGED <<timer_active, config, last_clipboard_content, current_ip,
                   display, events, threads, history, clipboard_history,
                   notification_methods, last_ip, last_notification,
                   changes, matcher,
                   side_vars>>

SearchHistory(keyword, db_ok) ==
    /\ \E res \in search_history(history, keyword, db_ok) :
           db_call' = [op |-> "search_history", result |-> res]
    /\ UNCHANGED <<timer_active, config, last_clipboard_content, current_ip,
                   display, events, threads, history, clipboard_history,
                   notification_methods, last_ip, last_notification,
                   changes, matcher,
                   side_vars>>

ClearHistory(db_ok) ==
    /\ history' = clear_history(history, db_ok).rows
    /\ db_call' = [op |-> "clear_history",
                   result |-> clear_history(history, db_ok).result]
    /\ UNCHANGED <<timer_active, config, last_clipboard_content, current_ip,
                   display, events, threads, clipboard_history,
                   notification_methods, last_ip, last_notification,
                   changes, matcher,
                   side_vars>>

DeleteRecordByIpAndTime(ip, time_str, db_ok) ==
    LET r == delete_record_by_ip_and_time(history, ip, time_str, db_ok) IN
    /\ history' = r.rows
    /\ db_call' = [op |-> "delete_record_by_ip_and_time",
                   result |-> r.result]
    /\ UNCHANGED <<timer_active, config, last_clipboard_content, current_ip,
                   display, events, threads, clipboard_history,
                   notification_methods, last_ip, last_notification,
                   changes, matcher,
                   side_vars>>

AddClipboardRecord(content, now, db_ok) ==
    /\ Len(clipboard_history) < MaxRows
    /\ clipboard_history' =
           add_clipboard_record(clipboard_history, content,
               Len(extract_ips_from_text(content, config)) > 0, now, db_ok)
    /\ db_call' = [op |-> "add_clipboard_record", result |-> db_ok]
    /\ UNCHANGED <<timer_active, config, last_clipboard_content, current_ip,
                   display, events, threads, history,
                   notification_methods, last_ip, last_notification,
                   changes, matcher,
                   side_vars>>

GetClipboardHistory(db_ok) ==
    /\ \E res \in get_history(clipboard_history, db_ok) :
           db_call' = [op |-> "get_clipboard_history", result |-> res]
    /\ UNCHANGED <<timer_active, config, last_clipboard_content, current_ip,
                   display, events, threads, history, clipboard_history,
                   notification_methods, last_ip, last_notification,
                   changes, matcher,
                   side_vars>>

SearchClipboardHistory(keyword, db_ok) ==
    /\ \E res \in search_clipboard_history(clipboard_history, keyword,
                                           db_ok) :
           db_call' = [op |-> "search_clipboard_history", result |-> res]
    /\ UNCHANGED <<timer_active, config, last_clipboard_content, current_ip,
                   display, events, threads, history, clipboard_history,
                   notification_methods, last_ip, last_notification,
                   changes, matcher,
                   side_vars>>

ClearClipboardHistory(db_ok) ==
    /\ clipboard_history' = clear_history(clipboard_history, db_ok).rows
    /\ db_call' = [op |-> "clear_clipboard_history",
                   result |-> clear_history(clipboard_history, db_ok).result]
    /\ UNCHANGED <<timer_active, config, last_clipboard_content, current_ip,
                   display, events, threads, history,
                   notification_methods, last_ip, last_notification,
                   changes, matcher,
                   side_vars>>

DeleteClipboardRecordByTime(time_str, db_ok) ==
    LET r == delete_clipboard_record_by_time(clipboard_history, time_str,
                                             db_ok) IN
    /\ clipboard_history' = r.rows
    /\ db_call' = [op |-> "delete_clipboard_record_by_time",
                   result |-> r.result]
    /\ UNCHANGED <<timer_active, config, last_clipboard_content, current_ip,
                   display, events, threads, history,
                   notification_methods, last_ip, last_notification,
                   changes, matcher,
                   side_vars>>

\* The application with both families enabled and an empty database.
InitStore ==
    /\ timer_active = TRUE
    /\ config = [enable_ipv4 |-> TRUE, enable_ipv6 |-> TRUE,
                 notifications |-> TRUE]
    /\ last_clipboard_content = <<>>
    /\ current_ip = None
    /\ display = [label |-> None, detail |-> None]
    /\ events = <<>>
    /\ threads = <<>>
    /\ history = <<>>
    /\ clipboard_history = <<>>
    /\ notification_methods = init_notification_methods(FALSE, FALSE, FALSE)
    /\ last_ip = None
    /\ last_notification =
           [ip |-> None, out |-> <<>>,
            call |-> [result |-> FALSE, attempts |-> <<>>, raised |-> FALSE]]
    /\ changes = 0
    /\ matcher = [text |-> <<>>, call |-> NoCall, result |-> <<>>]
    /\ db_call = [op |-> NoCall]
    /\ QuietSide

NextStore ==
    \/ \E ip \in Addresses, now \in Times, db_ok \in BOOLEAN :
           AddRecord(ip, now, db_ok)
    \/ \E db_ok \in BOOLEAN : GetHistory(db_ok)
    \/ \E keyword \in Keywords, db_ok \in BOOLEAN :
           SearchHistory(keyword, db_ok)
    \/ \E db_ok \in BOOLEAN : ClearHistory(db_ok)
    \/ \E ip \in Addresses, time_str \in Times, db_ok \in BOOLEAN :
           DeleteRecordByIpAndTime(ip, time_str, db_ok)
    \/ \E content \in Contents, now \in Times, db_ok \in BOOLEAN :
           AddClipboardRecord(content, now, db_ok)
    \/ \E db_ok \in BOOLEAN : GetClipboardHistory(db_ok)
    \/ \E keyword \in Keywords, db_ok \in BOOLEAN :
           SearchClipboardHistory(keyword, db_ok)
    \/ \E db_ok \in BOOLEAN : ClearClipboardHistory(db_ok)
    \/ \E time_str \in Times, db_ok \in BOOLEAN :
           DeleteClipboardRecordByTime(time_str, db_ok)

SpecStore == InitStore /\ [][NextStore]_vars

\* ------------------------------------------------------- the update check
\* Config.app_version.
app_version == <<"1", ".", "0", ".", "0">>

\* The parts of version strings a server can send: numbers below, at and
\* above those of app_version, and a part that is no number.
VersionParts == { <<"0">>, <<"1">>, <<"2">>, <<"b">> }

\* Version strings of two and three parts, with and without the prefix v.
VersionStrings ==
    LET plain == { Join(ps, <<".">>) :
                       ps \in [1..2 -> VersionParts]
                               \cup [1..3 -> VersionParts] }
    IN plain \cup { <<"v">> \o p : p \in plain }

\* response.json(): an object with a version or an object without one.
UpdateBodies ==
    { [has_version |-> TRUE, version |-> v] : v \in VersionStrings }
    \cup { [has_version |-> FALSE, version |-> <<>>] }

\* HTTP status codes of the version file.
UpdateStatuses == {200, 404}

\* str.isdigit()
isdigit(part) == part # <<>> /\ \A i \in DOMAIN part : part[i] \in Digit

\* parse_version: drop a leading v, split at the dots, fill up to three
\* parts with 0 and read each part as a number, 0 when it is no number.
parse_version(version_str) ==
    LET s == IF startswith(version_str, <<"v">>) THEN Tail(version_str)
             ELSE version_str
        parts == split(s, ".")
        padded == parts \o [i \in 1..(3 - Len(parts)) |-> <<"0">>]
    IN [i \in DOMAIN padded |->
            IF isdigit(padded[i]) THEN decimal(padded[i]) ELSE 0]

\* The for loop of is_new_version_available from part k on.
RECURSIVE newer_from(_, _, _)
newer_from(remote_parts, current_parts, k) ==
    IF k > 3 THEN FALSE
    ELSE IF remote_parts[k] > current_parts[k] THEN TRUE
    ELSE IF remote_parts[k] < current_parts[k] THEN FALSE
    ELSE newer_from(remote_parts, current_parts, k + 1)

\* Config.is_new_version_available
is_new_version_available(remote_version) ==
    newer_from(parse_version(remote_version), parse_version(app_version), 1)

\* Config.check_for_updates: None, written <<>>, when the request raises,
\* the status is not 200 or the object has no version; otherwise the
\* object wrapped as {"success": True, "data": update_info}, written as a
\* sequence of one record.
check_for_updates(raises, status, body) ==
    IF raises \/ status # 200 \/ ~body.has_version THEN <<>>
    ELSE << [success |-> TRUE, data |-> body] >>

\* The signals UpdateChecker.run emits for the value check_for_updates
\* returned: the test is 'version' in remote_info, on the keys of the
\* returned dictionary.
run_signals(remote_info) ==
    IF remote_info # <<>> /\ "version" \in DOMAIN remote_info[1]
    THEN IF is_new_version_available(remote_info[1].version)
         THEN << [signal |-> "update_available", has_update |-> TRUE,
                  message |-> "info"],
                 [signal |-> "check_completed", has_update |-> TRUE,
                  message |-> "new_version"] >>
         ELSE << [signal |-> "check_completed", has_update |-> FALSE,
                  message |-> "up_to_date"] >>
    ELSE << [signal |-> "check_completed", has_update |-> FALSE,
             message |-> "check_failed"] >>

\* The variables an update check leaves alone.
update_rest ==
    <<monitor_rest, config, timer_vars, conns, api_checker, closing>>

\* IPAnalyzer.check_for_updates: a new UpdateChecker thread is started.
CheckForUpdates ==
    /\ update_check.pc # "started"
    /\ update_check' = [pc |-> "started"]
    /\ UNCHANGED update_rest

\* UpdateChecker.run with the answer of the server.
UpdateCheckerRun(raises, status, body) ==
    /\ update_check.pc = "started"
    /\ update_check' =
           [pc |-> "done", raises |-> raises, status |-> status,
            body |-> body,
            emitted |-> run_signals(check_for_updates(raises, status, body))]
    /\ UNCHANGED update_rest

\* The application after construction, before any update check.
InitUpdate ==
    /\ timer_active = TRUE
    /\ config = [enable_ipv4 |-> TRUE, enable_ipv6 |-> TRUE,
                 notifications |-> TRUE]
    /\ last_clipboard_content = <<>>
    /\ current_ip = None
    /\ display = [label |-> None, detail |-> None]
    /\ events = <<>>
    /\ threads = <<>>
    /\ history = <<>>
    /\ clipboard_history = <<>>
    /\ notification_methods = init_notification_methods(FALSE, FALSE, FALSE)
    /\ last_ip = None
    /\ last_notification =
           [ip |-> None, out |-> <<>>,
            call |-> [result |-> FALSE, attempts |-> <<>>, raised |-> FALSE]]
    /\ changes = 0
    /\ matcher = [text |-> <<>>, call |-> NoCall, result |-> <<>>]
    /\ db_call = [op |-> NoCall]
    /\ QuietSide

NextUpdate ==
    \/ CheckForUpdates
    \/ \E raises \in BOOLEAN, status \in UpdateStatuses,
          body \in UpdateBodies : UpdateCheckerRun(raises, status, body)

SpecUpdate == InitUpdate /\ [][NextUpdate]_vars

\* ------------------------------------------------- APIChecker and shutdown
\* for _ in range(30): the number of one-second sleeps between two requests.
SleepSteps == 30

\* Variant of the loop test: while True.
while_true(running) == "request"

\* while self.running: the body is entered, or run returns.
while_test(running) == IF running THEN "request" ELSE "exited"

\* One pass of 'for _ in range(30): if not self.running: break': the loop
\* ends when the range is used up or the flag is down, else it sleeps.
for_test(running, sleeps) ==
    IF sleeps >= SleepSteps \/ ~running THEN "while" ELSE "sleep"

\* The variables the APIChecker thread and close_application leave alone.
shutdown_rest ==
    <<monitor_rest, config, timer_vars, conns, update_check>>

\* APIChecker.run at the head of the while loop.
CheckerWhile ==
    /\ api_checker.pc = "while"
    /\ api_checker' =
           [api_checker EXCEPT !.pc = while_test(api_checker.running)]
    /\ UNCHANGED <<shutdown_rest, closing>>

\* requests.get(..., timeout=5) returns or raises; every exception is
\* caught, status_updated is emitted and the for loop starts.
CheckerRequest ==
    /\ api_checker.pc = "request"
    /\ api_checker' = [api_checker EXCEPT !.pc = "for", !.sleeps = 0]
    /\ UNCHANGED <<shutdown_rest, closing>>

\* The head of the for loop with its test of the flag.
CheckerFor ==
    /\ api_checker.pc = "for"
    /\ api_checker' =
           [api_checker EXCEPT
                !.pc = for_test(api_checker.running, api_checker.sleeps)]
    /\ UNCHANGED <<shutdown_rest, closing>>

\* time.sleep(1) returns.
CheckerSleep ==
    /\ api_checker.pc = "sleep"
    /\ api_checker' = [api_checker EXCEPT !.pc = "for",
                                         !.sleeps = api_checker.sleeps + 1]
    /\ UNCHANGED <<shutdown_rest, closing>>

\* The steps of the APIChecker thread.
CheckerStep ==
    \/ CheckerWhile
    \/ CheckerRequest
    \/ CheckerFor
    \/ CheckerSleep

\* close_application up to the call of wait(): the configuration is saved
\* and stop() takes the flag down.
CloseApplication ==
    /\ closing = "no"
    /\ api_checker' = [api_checker EXCEPT !.running = FALSE]
    /\ closing' = "waiting"
    /\ UNCHANGED shutdown_rest

\* wait() returns once run has returned; the tray icon is hidden and
\* QApplication.quit() is called.
CloseWaitReturns ==
    /\ closing = "waiting"
    /\ api_checker.pc = "exited"
    /\ closing' = "quit"
    /\ UNCHANGED <<shutdown_rest, api_checker>>

\* The application after construction: start_api_checker has started the
\* thread.
InitShutdown == InitUpdate

NextShutdown ==
    \/ CheckerStep
    \/ CloseApplication
    \/ CloseWaitReturns

\* The operating system schedules the checker thread, whose request and
\* sleep return in bounded time, and the GUI thread blocked in wait() goes
\* on when the thread has finished.
SpecShutdown ==
    /\ InitShutdown
    /\ [][NextShutdown]_vars
    /\ WF_vars(CheckerStep)
    /\ WF_vars(CloseWaitReturns)

\* ------------------------------------------- store calls in several threads
\* Every DatabaseManager method opens its own connection: connect, one
\* statement, commit. conns holds the calls made so far, each with the
\* position of its thread in the method.
MaxCalls == 2

\* The rows of the history table.
HistoryRows ==
    { [time |-> t, ip |-> ip,
       type |-> IF ip \in IPv4Tokens THEN "ipv4" ELSE "ipv6"] :
          t \in Times, ip \in Addresses }

\* The tables the calls can find: fewer than MaxRows rows.
StartTables ==
    UNION { [1..n -> HistoryRows] : n \in 0..(MaxRows - 1) }

\* The statement of a call on a table: the rows afterwards and the value
\* the method returns; no change and False when sqlite raises.
statement(c, rows, db_ok) ==
    CASE c.op = "add_record" ->
             [rows |-> add_record(rows, c.ip,
                                  IF c.ip \in IPv4Tokens THEN "ipv4"
                                  ELSE "ipv6",
                                  c.time, db_ok),
              result |-> db_ok]
      [] c.op = "clear_history" -> clear_history(rows, db_ok)
      [] c.op = "delete_record_by_ip_and_time" ->
             delete_record_by_ip_and_time(rows, c.ip, c.time, db_ok)

\* Variant of the lock test: a statement runs although another connection
\* has an uncommitted write.
can_write_unlocked(cs, i) == TRUE

\* SQLite lets one connection at a time hold the write lock of the file:
\* INSERT and DELETE go on when no other connection has an uncommitted
\* write (the busy handler of the connection waits for that).
can_write(cs, i) ==
    \A j \in DOMAIN cs : j # i => cs[j].pc # "executed"

\* The variables a store call in a thread leaves alone.
conc_rest ==
    <<timer_active, config, last_clipboard_content, current_ip, display,
      events, threads, clipboard_history, notification_methods, last_ip,
      last_notification, changes, matcher, db_call, timer_vars,
      update_check, api_checker, closing>>

\* A thread enters a method and sqlite3.connect returns: the lookup threads
\* call add_record (save_to_history), the GUI thread, one call at a time,
\* delete_record_by_ip_and_time or clear_history. started_on keeps the
\* table of that moment.
Connect(caller, op, ip, time_str) ==
    /\ Len(conns) < MaxCalls
    /\ caller = "gui" =>
           \A j \in DOMAIN conns :
               conns[j].caller = "gui" => conns[j].pc = "done"
    /\ conns' = Append(conns,
                       [caller |-> caller, op |-> op, ip |-> ip,
                        time |-> time_str, pc |-> "connected",
                        pending |-> <<>>, ok |-> TRUE, result |-> FALSE,
                        started_on |-> history])
    /\ UNCHANGED <<conc_rest, history>>

\* cursor.execute: the connection takes the write lock and changes its
\* copy of the table; when sqlite raises, the except branch returns False.
Execute(i, db_ok) ==
    /\ conns[i].pc = "connected"
    /\ IF db_ok
       THEN /\ can_write(conns, i)
            /\ conns' =
                   [conns EXCEPT
                        ![i].pc = "executed",
                        ![i].pending = statement(conns[i], history, TRUE).rows,
                        ![i].result =
                            statement(conns[i], history, TRUE).result]
       ELSE conns' = [conns EXCEPT ![i].pc = "done", ![i].ok = FALSE,
                                   ![i].result = FALSE]
    /\ UNCHANGED <<conc_rest, history>>

\* conn.commit(), conn.close() and the return: the copy becomes the table
\* of the file and the lock is released; when the commit raises, nothing
\* is written and the method returns False.
Commit(i, db_ok) ==
    /\ conns[i].pc = "executed"
    /\ IF db_ok
       THEN /\ history' = conns[i].pending
            /\ conns' = [conns EXCEPT ![i].pc = "done"]
       ELSE /\ history' = history
            /\ conns' = [conns EXCEPT ![i].pc = "done", ![i].ok = FALSE,
                                      ![i].result = FALSE]
    /\ UNCHANGED conc_rest

\* The application with some records in the table and no call in progress.
InitConc ==
    /\ timer_active = TRUE
    /\ config = [enable_ipv4 |-> TRUE, enable_ipv6 |-> TRUE,
                 notifications |-> TRUE]
    /\ last_clipboard_content = <<>>
    /\ current_ip = None
    /\ display = [label |-> None, detail |-> None]
    /\ events = <<>>
    /\ threads = <<>>
    /\ history \in StartTables
    /\ clipboard_history = <<>>
    /\ notification_methods = init_notification_methods(FALSE, FALSE, FALSE)
    /\ last_ip = None
    /\ last_notification =
           [ip |-> None, out |-> <<>>,
            call |-> [result |-> FALSE, attempts |-> <<>>, raised |-> FALSE]]
    /\ changes = 0
    /\ matcher = [text |-> <<>>, call |-> NoCall, result |-> <<>>]
    /\ db_call = [op |-> NoCall]
    /\ QuietSide

NextConc ==
    \/ \E ip \in Addresses, now \in Times :
           Connect("lookup", "add_record", ip, now)
    \/ \E ip \in Addresses, time_str \in Times :
           Connect("gui", "delete_record_by_ip_and_time", ip, time_str)
    \/ Connect("gui", "clear_history", None, FirstSecond)
    \/ \E i \in DOMAIN conns, db_ok \in BOOLEAN : Execute(i, db_ok)
    \/ \E i \in DOMAIN conns, db_ok \in BOOLEAN : Commit(i, db_ok)

SpecConc == InitConc /\ [][NextConc]_vars

\* ---------------------------------------------------------------- claims
\* The addresses found in the content of the latest processed tick.
ips_of(content) == extract_ips_from_text(content, config)

ip_type_of(ip) == IF ip \in IPv4Tokens THEN "ipv4" ELSE "ipv6"

new_thread(ip) ==
    [ip |-> ip, type |-> ip_type_of(ip), pc |-> "request", body |-> None,
     saved |-> "none"]

\* C1: the displayed detail text never belongs to an address other than the
\* currently tracked one (a completion of a lookup for an address that is
\* no longer tracked does not overwrite the detail).
C1_DetailOfTrackedAddress ==
    display.detail # None => display.detail = current_ip

\* C2: a lookup is started exactly when the tracked address changes, and a
\* processed tick that detects only the address already tracked starts no
\* lookup and no notification and leaves current_ip unchanged.
C2_SameAddressOneLookup ==
    [][/\ current_ip' # current_ip =>
            /\ Len(threads') = Len(threads) + 1
            /\ threads'[Len(threads')].ip = current_ip'
       /\ (/\ last_clipboard_content' # last_clipboard_content
           /\ ips_of(last_clipboard_content') # <<>>
           /\ \A j \in DOMAIN ips_of(last_clipboard_content') :
                  ips_of(last_clipboard_content')[j].ip = current_ip)
          => /\ threads' = threads
             /\ current_ip' = current_ip
             /\ last_ip' = last_ip
             /\ history' = history]_vars

\* C2 witness: two processed ticks in a row detected 203.0.113.5 in two
\* different texts and a single lookup of it is in flight.
C2_Witness ==
    /\ changes = 2
    /\ Len(clipboard_history) = 2
    /\ clipboard_history[1] = [time |-> FirstSecond, content |-> <<IPV4_A>>,
                               contains_ip |-> TRUE]
    /\ clipboard_history[2] =
           [time |-> FirstSecond, content |-> <<Word, IPV4_A>>,
            contains_ip |-> TRUE]
    /\ current_ip = IPV4_A
    /\ threads = <<new_thread(IPV4_A)>>
    /\ history = <<>>

\* C3: a tick whose stripped buffer read is empty or equals
\* last_clipboard_content changes nothing: no snapshot, no lookup, no
\* notification, no change of last_clipboard_content or current_ip.
C3_UnchangedTickIsNoOp ==
    [][\A raw \in RawTexts, db_ok \in BOOLEAN :
          (/\ strip(raw) = <<>> \/ strip(raw) = last_clipboard_content
           /\ check_clipboard(raw, TRUE, db_ok))
          => UNCHANGED <<last_clipboard_content, current_ip, display,
                         events, threads, history, clipboard_history,
                         last_ip, changes>>]_vars

\* C3 witness: one change has been processed and stored as one snapshot, so
\* every further tick over the same content is such a no-op.
C3_Witness ==
    /\ changes = 1
    /\ last_clipboard_content = <<Word, IPV4_A>>
    /\ Len(clipboard_history) = 1
    /\ Len(threads) = 1

\* Index of the first backend that reports success, 0 if none does.
first_success(out) ==
    IF \E k \in DOMAIN out : out[k] = "True"
    THEN CHOOSE k \in DOMAIN out :
             /\ out[k] = "True"
             /\ \A j \in DOMAIN out : out[j] = "True" => k <= j
    ELSE 0

\* C4: the backends are attempted in registration order, each at most once,
\* up to and including the first one that reports success; the call returns
\* True exactly when there is one, and no backend after it is attempted.
C4_ChainStopsAtFirstSuccess ==
    last_notification.out # <<>> =>
        LET out == last_notification.out
            call == last_notification.call
            k == first_success(out)
        IN /\ call.result = (k # 0)
           /\ call.attempts =
                  SubSeq(notification_methods, 1,
                         IF k # 0 THEN k ELSE Len(notification_methods))

\* C4 witness: three backends, the first two fail and the third succeeds.
C4_Witness ==
    /\ last_notification.out # <<>>
    /\ Len(notification_methods) = 3
    /\ last_notification.out = <<"False", "raise", "True">>
    /\ last_notification.call.result = TRUE
    /\ Len(last_notification.call.attempts) = 3

\* C5: show_notification never raises; a backend that raises is followed by
\* the next backend exactly like one that returns False, and the call
\* returns False when no attempted backend reports success.
C5_ChainNeverRaises ==
    last_notification.out # <<>> =>
        LET out == last_notification.out
            call == last_notification.call
        IN /\ ~call.raised
           /\ \A k \in DOMAIN out :
                  (/\ k <= Len(call.attempts)
                   /\ out[k] \in {"raise", "False"}
                   /\ k < Len(notification_methods))
                  => Len(call.attempts) >= k + 1
           /\ (\A k \in DOMAIN out : out[k] # "True") => call.result = FALSE

\* C5 witness: every backend was attempted, one of them raised, none
\* succeeded and the call returned False.
C5_Witness ==
    /\ last_notification.out # <<>>
    /\ last_notification.out[1] = "raise"
    /\ \A k \in DOMAIN last_notification.out :
           last_notification.out[k] # "True"
    /\ last_notification.call.attempts = notification_methods
    /\ last_notification.call.result = FALSE

\* C6 as stated: whenever a lookup thread is about to call show_ip_details
\* with notifications enabled, the record of its result has been written to
\* the history store.
C6_RecordWrittenBeforeNotification ==
    \A i \in DOMAIN threads :
        (threads[i].pc = "show" /\ config.notifications)
        => /\ threads[i].saved = "ok"
           /\ \E r \in DOMAIN history : history[r].ip = threads[i].ip

\* C6 amended: whenever a lookup thread is about to call show_ip_details,
\* save_to_history has returned; the record is in the store when add_record
\* succeeded, and the notification follows also when it failed.
C6_WriteAttemptedBeforeNotification ==
    \A i \in DOMAIN threads :
        /\ threads[i].pc = "save" => threads[i].saved = "none"
        /\ threads[i].pc = "show" =>
              /\ threads[i].saved \in {"ok", "failed"}
              /\ threads[i].saved = "ok" =>
                    \E r \in DOMAIN history : history[r].ip = threads[i].ip

\* C6 witness: a thread with a written record is about to notify.
C6_Witness ==
    \E i \in DOMAIN threads :
        /\ threads[i].pc = "show"
        /\ threads[i].saved = "ok"
        /\ config.notifications
        /\ \E r \in DOMAIN history : history[r].ip = threads[i].ip

\* C7: the tick that starts a lookup returns with the lookup still in
\* flight (its request not answered, no record, no detail update), whatever
\* number of earlier lookups is still in flight.
C7_TickDoesNotWaitForLookup ==
    [][current_ip' # current_ip =>
          /\ threads' = Append(threads, new_thread(current_ip'))
          /\ history' = history
          /\ events' = events
          /\ last_ip' = last_ip]_vars

\* C7 witness: a tick started a second lookup while the first one was still
\* waiting for its response.
C7_Witness ==
    /\ Len(threads) = 2
    /\ \A i \in DOMAIN threads : threads[i].pc = "request"

\* A tick that processes a changed buffer.
ChangedTick ==
    /\ timer_active
    /\ \E raw \in RawTexts, db_ok \in BOOLEAN :
           /\ strip(raw) # <<>>
           /\ strip(raw) # last_clipboard_content
           /\ check_clipboard(raw, TRUE, db_ok)

\* C8: whatever failed so far, the polling timer is active and a tick that
\* processes a further buffer change is possible.
C8_PollingNeverStops ==
    /\ timer_active
    /\ changes < MaxChanges => ENABLED ChangedTick

\* C8 witness: both snapshot inserts failed and the lookup ended without a
\* record, and the timer is still active.
C8_Witness ==
    /\ changes = 2
    /\ clipboard_history = <<>>
    /\ current_ip # None
    /\ threads = <<>>
    /\ history = <<>>
    /\ timer_active

\* C9: a processed tick whose content holds no address clears current_ip.
C9_NoAddressClearsTracked ==
    [][(/\ last_clipboard_content' # last_clipboard_content
        /\ ips_of(last_clipboard_content') = <<>>)
       => current_ip' = None]_vars

\* C10 as stated: after a processed tick that found addresses the first
\* match is the tracked address, and when the first match was tracked
\* already no lookup is started.
C10_OnlyFirstMatchTracked ==
    [][(/\ last_clipboard_content' # last_clipboard_content
        /\ ips_of(last_clipboard_content') # <<>>)
       => /\ current_ip' = ips_of(last_clipboard_content')[1].ip
          /\ ips_of(last_clipboard_content')[1].ip = current_ip
                => threads' = threads]_vars

\* C10 amended: a processed tick tracks and looks up the first match that
\* differs from current_ip, and nothing when every match equals current_ip;
\* at most one address is tracked and looked up per tick.
C10_FirstDifferentMatchTracked ==
    [][(/\ last_clipboard_content' # last_clipboard_content
        /\ ips_of(last_clipboard_content') # <<>>)
       => LET ips == ips_of(last_clipboard_content')
              new == {j \in DOMAIN ips : ips[j].ip # current_ip}
          IN IF new = {}
             THEN current_ip' = current_ip /\ threads' = threads
             ELSE LET k == CHOOSE j \in new : \A m \in new : j <= m
                  IN /\ current_ip' = ips[k].ip
                     /\ threads' = Append(threads, new_thread(ips[k].ip))]_vars

\* C10 witness: the text holds 203.0.113.5 and fe80::1, the first match was
\* tracked already and the second one has become the tracked address.
C10_Witness ==
    /\ last_clipboard_content = <<IPV4_A, IPV6_A>>
    /\ config.enable_ipv4 /\ config.enable_ipv6
    /\ current_ip = IPV6_A
    /\ changes = 2

\* The first position at which sub occurs in s; 0 when it does not occur.
find(s, sub) ==
    IF contains(s, sub)
    THEN CHOOSE i \in 1..Len(s) :
             /\ i + Len(sub) - 1 <= Len(s)
             /\ SubSeq(s, i, i + Len(sub) - 1) = sub
             /\ \A j \in 1..(i - 1) : SubSeq(s, j, j + Len(sub) - 1) # sub
    ELSE 0

\* extract_ips_from_text was applied to matcher.text.
Extracted == matcher.call = "extract_ips_from_text"

canonical_octet(o) ==
    /\ o # <<>>
    /\ \A i \in DOMAIN o : o[i] \in Digit
    /\ decimal(o) <= 255
    /\ (Len(o) = 1 \/ o[1] # "0")

\* The string is four groups of decimal digits separated by dots.
dotted_quad(s) ==
    /\ Len(split(s, ".")) = 4
    /\ \A k \in 1..4 :
           /\ split(s, ".")[k] # <<>>
           /\ \A i \in DOMAIN split(s, ".")[k] : split(s, ".")[k][i] \in Digit

\* C12: a string of four dot-separated octets, each in 0..255 and written
\* without a leading zero, is returned as an IPv4 address; with an octet
\* above 255 or a zero-padded octet no IPv4 address is returned.
C12_Ipv4Classification ==
    (Extracted /\ config.enable_ipv4 /\ dotted_quad(matcher.text)) =>
        IF \A k \in 1..4 : canonical_octet(split(matcher.text, ".")[k])
        THEN matcher.result # <<>>
             /\ matcher.result[1] = [ip |-> matcher.text, type |-> "ipv4"]
        ELSE \A i \in DOMAIN matcher.result :
                 matcher.result[i].type # "ipv4"

\* C12 witness: a quad with the octets 255 and 0 was returned as IPv4.
C12_Witness ==
    /\ Extracted
    /\ dotted_quad(matcher.text)
    /\ \E k \in 1..4 : split(matcher.text, ".")[k] = <<"2", "5", "5">>
    /\ \E k \in 1..4 : split(matcher.text, ".")[k] = <<"0">>
    /\ matcher.result = <<[ip |-> matcher.text, type |-> "ipv4"]>>

\* C13: a dotted numeric token with more than four groups, as in
\* "version 1.2.3.4.5", yields an empty result: no four-octet sub-run of it
\* is returned.
C13_LongDottedRunYieldsNothing ==
    (Extracted /\ matcher.text \in DottedQuints) => matcher.result = <<>>

\* The string is 8 colon-separated groups of 1 to 4 hexadecimal digits.
full_form(s) ==
    /\ Len(split(s, ":")) = 8
    /\ \A k \in 1..8 :
           /\ Len(split(s, ":")[k]) \in 1..4
           /\ \A i \in DOMAIN split(s, ":")[k] :
                  split(s, ":")[k][i] \in HexDigit

\* The number of positions of s at which sub starts.
occurrences(s, sub) ==
    Cardinality({i \in 1..Len(s) : i + Len(sub) - 1 <= Len(s)
                                   /\ SubSeq(s, i, i + Len(sub) - 1) = sub})

\* C14: is_valid_ipv6 accepts every full-form string of 8 groups of 1 to 4
\* hex digits and rejects "::", ":::", every string containing ":::" and
\* every string with two or more occurrences of "::".
C14_Ipv6Validation ==
    matcher.call = "is_valid_ipv6" =>
        /\ full_form(matcher.text) => matcher.result = TRUE
        /\ (\/ matcher.text = <<":", ":">>
            \/ matcher.text = <<":", ":", ":">>
            \/ occurrences(matcher.text, <<":", ":", ":">>) >= 1
            \/ occurrences(matcher.text, <<":", ":">>) >= 2)
               => matcher.result = FALSE

\* C14 witness: a full form with groups of one and of four digits was
\* accepted.
C14_Witness ==
    /\ matcher.call = "is_valid_ipv6"
    /\ full_form(matcher.text)
    /\ \E k \in 1..8 : Len(split(matcher.text, ":")[k]) = 1
    /\ \E k \in 1..8 : Len(split(matcher.text, ":")[k]) = 4
    /\ matcher.result = TRUE

\* The number of groups that are written out in a literal.
explicit_groups(ip) ==
    Len(SelectSeq(split(ip, ":"), LAMBDA g : g # <<>>))

\* C15: a candidate with "::" is accepted only when it has at most 7 groups
\* written out; one with 8 or more is rejected by is_valid_ipv6 and is not
\* returned by extract_ips_from_text.
C15_CompressionLeavesRoom ==
    /\ (matcher.call = "is_valid_ipv6"
        /\ occurrences(matcher.text, <<":", ":">>) >= 1
        /\ explicit_groups(matcher.text) >= 8)
           => matcher.result = FALSE
    /\ Extracted =>
           \A i \in DOMAIN matcher.result :
               occurrences(matcher.result[i].ip, <<":", ":">>) >= 1
                   => explicit_groups(matcher.result[i].ip) <= 7

\* C16: a colon-separated run without "::" whose number of groups is not 8,
\* as 1:2:3:4:5:6:7:8:9, is rejected as a whole: no IPv6 address is
\* returned for it, in particular not its first 8 groups.
C16_LongRunRejectedWhole ==
    (/\ Extracted
     /\ matcher.text \in Uncompressed
     /\ Len(split(matcher.text, ":")) # 8)
        => \A i \in DOMAIN matcher.result : matcher.result[i].type # "ipv6"

\* The threads without thread i.
without(ths, i) ==
    [k \in 1..(Len(ths) - 1) |-> IF k < i THEN ths[k] ELSE ths[k + 1]]

\* C17: a failed lookup (exception, status other than 200) changes nothing
\* but the log: current_ip is unchanged, no record is written, no
\* notification is dispatched, the thread ends, and a lookup is started
\* only in a step in which current_ip changes to the address looked up, so
\* there is no retry for the address that stays tracked.
C17_FailedLookupChangesNothing ==
    [][/\ \A i \in DOMAIN threads, raises \in BOOLEAN,
             status \in Statuses, body \in Bodies :
              ((raises \/ status # 200) /\ Response(i, raises, status, body))
              => /\ UNCHANGED <<current_ip, last_clipboard_content, history,
                               clipboard_history, last_ip, events, display>>
                 /\ threads' = without(threads, i)
       /\ Len(threads') > Len(threads)
              => /\ current_ip' # current_ip
                 /\ threads'[Len(threads')].ip = current_ip']_vars

\* C17 witness: with notifications enabled an address is tracked, its lookup
\* is over, and there is no record, no notification and no detail: the
\* lookup failed; the buffer changed again since and no lookup is running.
C17_Witness ==
    /\ config.notifications
    /\ current_ip # None
    /\ threads = <<>>
    /\ history = <<>>
    /\ last_ip = None
    /\ events = <<>>
    /\ display.detail = None
    /\ changes = 2
    /\ display.label = current_ip

\* C18: a response with status 200 and a body without usable location data
\* has the outcome of a failed lookup: no record is persisted for it.
C18_MalformedBodyIsFailure ==
    \A i \in DOMAIN threads :
        threads[i].body = "nodata" => threads[i].saved # "ok"

\* a is an initial part of b.
prefix(a, b) == Len(a) <= Len(b) /\ SubSeq(b, 1, Len(a)) = a

ReadOps == {"get_history", "search_history", "get_clipboard_history",
            "search_clipboard_history"}

\* Reads leave both tables unchanged, and a row disappears only in a delete
\* or a clear of its table.
ReadsAndRemovals ==
    /\ db_call'.op \in ReadOps => UNCHANGED <<history, clipboard_history>>
    /\ ~prefix(history, history')
           => db_call'.op \in {"clear_history",
                               "delete_record_by_ip_and_time"}
    /\ ~prefix(clipboard_history, clipboard_history')
           => db_call'.op \in {"clear_clipboard_history",
                               "delete_clipboard_record_by_time"}

\* C19: the store is append-only apart from delete and clear: add_record
\* and add_clipboard_record each add exactly one record and leave the
\* existing ones as they are, reads and searches change nothing, and a
\* record disappears only through a delete or a clear.
C19_AppendOnly ==
    [][/\ db_call'.op = "add_record"
              => /\ prefix(history, history')
                 /\ Len(history') = Len(history) + 1
                 /\ UNCHANGED clipboard_history
       /\ db_call'.op = "add_clipboard_record"
              => /\ prefix(clipboard_history, clipboard_history')
                 /\ Len(clipboard_history') = Len(clipboard_history) + 1
                 /\ UNCHANGED history
       /\ ReadsAndRemovals]_vars

\* C19 with the failing insert: add_record and add_clipboard_record add
\* exactly one record when they return True and none when sqlite fails and
\* they return False; in both cases the existing records stay as they are.
C19_AppendOnlyAtMostOne ==
    [][/\ db_call'.op = "add_record"
              => /\ prefix(history, history')
                 /\ Len(history') =
                        Len(history) + (IF db_call'.result THEN 1 ELSE 0)
                 /\ UNCHANGED clipboard_history
       /\ db_call'.op = "add_clipboard_record"
              => /\ prefix(clipboard_history, clipboard_history')
                 /\ Len(clipboard_history') =
                        Len(clipboard_history)
                        + (IF db_call'.result THEN 1 ELSE 0)
                 /\ UNCHANGED history
       /\ ReadsAndRemovals]_vars

\* C19 witness: add_record returned True with a second record in the table,
\* next to a snapshot.
C19_Witness ==
    /\ db_call.op = "add_record"
    /\ db_call.result = TRUE
    /\ Len(history) = 2
    /\ clipboard_history # <<>>

\* C20: a point delete returns True exactly when at least one stored record
\* matched the key and was removed; when no record matches it returns
\* False and the store is unchanged.
C20_DeleteReportsRemoval ==
    [][/\ \A ip \in Addresses, time_str \in Times, db_ok \in BOOLEAN :
              (/\ db_call'.op = "delete_record_by_ip_and_time"
               /\ DeleteRecordByIpAndTime(ip, time_str, db_ok)) =>
                  LET matches(r) == r.ip = ip /\ r.time = time_str
                      matched == \E k \in DOMAIN history : matches(history[k])
                      removed ==
                          /\ \A k \in DOMAIN history' : ~matches(history'[k])
                          /\ Len(history') < Len(history)
                  IN /\ db_call'.result = TRUE <=> (matched /\ removed)
                     /\ ~matched => (db_call'.result = FALSE
                                     /\ UNCHANGED history)
       /\ \A time_str \in Times, db_ok \in BOOLEAN :
              (/\ db_call'.op = "delete_clipboard_record_by_time"
               /\ DeleteClipboardRecordByTime(time_str, db_ok)) =>
                  LET matched == \E k \in DOMAIN clipboard_history :
                                     clipboard_history[k].time = time_str
                      removed ==
                          /\ \A k \in DOMAIN clipboard_history' :
                                 clipboard_history'[k].time # time_str
                          /\ Len(clipboard_history')
                                 < Len(clipboard_history)
                  IN /\ db_call'.result = TRUE <=> (matched /\ removed)
                     /\ ~matched => (db_call'.result = FALSE
                                     /\ UNCHANGED clipboard_history)]_vars

\* C20 witness: a point delete returned True and another record of the
\* table is still there.
C20_Witness ==
    /\ db_call.op = "delete_record_by_ip_and_time"
    /\ db_call.result = TRUE
    /\ Len(history) = 1

\* C25: the polling timer never runs with an interval below 500 ms,
\* whatever check_interval the configuration holds.
C25_IntervalAtLeastHalfSecond ==
    \A k \in DOMAIN clipboard_timers : clipboard_timers[k] >= 500

\* C27: when no settings dialog is in progress, exactly one polling timer
\* runs and its interval equals check_interval.
C27_OneTimerWithCurrentInterval ==
    settings = Closed =>
        /\ Len(clipboard_timers) = 1
        /\ clipboard_timers[1] = check_interval * 10

\* C27 with the conversion of the code: exactly one polling timer runs and
\* its interval is check_interval in whole milliseconds or, where the
\* product of the doubles lies just below, one millisecond less.
C27_OneTimerWithTruncatedInterval ==
    settings = Closed =>
        /\ Len(clipboard_timers) = 1
        /\ clipboard_timers[1] <= check_interval * 10
        /\ clipboard_timers[1] >= check_interval * 10 - 1

\* C27 witness: a save has set the interval to 10 seconds, the dialog is
\* gone and the one running timer has 10000 ms.
C27_Witness ==
    /\ settings = Closed
    /\ check_interval = 1000
    /\ clipboard_timers = <<10000>>

\* The two tables and the operation called last.
store_view == <<history, clipboard_history, db_call.op>>

\* C21: deleting one snapshot row removes that snapshot only: the rows that
\* leave clipboard_history all carry the same text, so a snapshot of the
\* same second with a different text is still there.
C21_PointDeleteRemovesOneSnapshot ==
    [][\A time_str \in Times :
           (/\ db_call'.op = "delete_clipboard_record_by_time"
            /\ DeleteClipboardRecordByTime(time_str, TRUE)) =>
               LET removed(k) ==
                       \A i \in DOMAIN clipboard_history' :
                           clipboard_history'[i] # clipboard_history[k]
               IN \A j, k \in DOMAIN clipboard_history :
                      (removed(j) /\ removed(k)) =>
                          clipboard_history[j].content
                              = clipboard_history[k].content]_store_view

\* A call of an inserting, deleting or clearing operation that fails.
FailedWrite ==
    \/ /\ db_call'.op = "add_record"
       /\ \E ip \in Addresses, now \in Times : AddRecord(ip, now, FALSE)
    \/ /\ db_call'.op = "clear_history"
       /\ ClearHistory(FALSE)
    \/ /\ db_call'.op = "delete_record_by_ip_and_time"
       /\ \E ip \in Addresses, time_str \in Times :
              DeleteRecordByIpAndTime(ip, time_str, FALSE)
    \/ /\ db_call'.op = "add_clipboard_record"
       /\ \E content \in Contents, now \in Times :
              AddClipboardRecord(content, now, FALSE)
    \/ /\ db_call'.op = "clear_clipboard_history"
       /\ ClearClipboardHistory(FALSE)
    \/ /\ db_call'.op = "delete_clipboard_record_by_time"
       /\ \E time_str \in Times : DeleteClipboardRecordByTime(time_str, FALSE)

\* A call of a listing or searching operation that fails.
FailedRead ==
    \/ /\ db_call'.op = "get_history"
       /\ GetHistory(FALSE)
    \/ /\ db_call'.op = "search_history"
       /\ \E keyword \in Keywords : SearchHistory(keyword, FALSE)
    \/ /\ db_call'.op = "get_clipboard_history"
       /\ GetClipboardHistory(FALSE)
    \/ /\ db_call'.op = "search_clipboard_history"
       /\ \E keyword \in Keywords : SearchClipboardHistory(keyword, FALSE)

\* C23: a store operation whose sqlite call fails returns False (insert,
\* delete, clear) or the empty list (list, search) and leaves both tables
\* as they were.
C23_FailureValueAndNoChange ==
    [][/\ FailedWrite =>
              (db_call'.result = FALSE
               /\ UNCHANGED <<history, clipboard_history>>)
       /\ FailedRead =>
              (db_call'.result = <<>>
               /\ UNCHANGED <<history, clipboard_history>>)]_vars

\* C23 witness: clear_history has failed and returned False, and the
\* record of the table is still there.
C23_Witness ==
    /\ db_call.op = "clear_history"
    /\ db_call.result = FALSE
    /\ Len(history) = 1

\* The address records whose ip holds the keyword as a substring.
RECURSIVE history_hits(_, _)
history_hits(rows, keyword) ==
    IF rows = <<>> THEN <<>>
    ELSE (IF contains(chars_of(Head(rows).ip), chars_of(keyword))
          THEN <<Head(rows)>> ELSE <<>>)
         \o history_hits(Tail(rows), keyword)

\* The snapshots whose content holds the keyword as a substring.
RECURSIVE clipboard_hits(_, _)
clipboard_hits(rows, keyword) ==
    IF rows = <<>> THEN <<>>
    ELSE (IF contains(text_chars(Head(rows).content), chars_of(keyword))
          THEN <<Head(rows)>> ELSE <<>>)
         \o clipboard_hits(Tail(rows), keyword)

\* C24: a successful search returns the rows in which the keyword occurs
\* literally, in the ip column for search_history and in the content for
\* search_clipboard_history, and no other row.
C24_SearchIsLiteralSubstring ==
    [][/\ \A keyword \in Keywords :
              (/\ db_call'.op = "search_history"
               /\ SearchHistory(keyword, TRUE)) =>
                  db_call'.result \in
                      time_desc_orders(
                          history_hits(history, keyword))
       /\ \A keyword \in Keywords :
              (/\ db_call'.op = "search_clipboard_history"
               /\ SearchClipboardHistory(keyword, TRUE)) =>
                  db_call'.result \in
                      time_desc_orders(
                          clipboard_hits(clipboard_history,
                                         keyword))]_store_view

\* C26: every tick whose buffer read differs from last_clipboard_content,
\* the empty and the whitespace-only buffer included, stores exactly one
\* snapshot with the text of the buffer and the flag of the matcher, and
\* makes the buffer content the last content.
C26_EveryChangeStoresOneSnapshot ==
    [][\A raw \in RawTexts, db_ok \in BOOLEAN :
          (/\ raw # last_clipboard_content
           /\ check_clipboard(raw, TRUE, db_ok))
          => /\ clipboard_history' =
                    Append(clipboard_history,
                           [time |-> FirstSecond, content |-> raw,
                            contains_ip |->
                                extract_ips_from_text(raw, config) # <<>>])
             /\ last_clipboard_content' = raw]_vars

\* C28: after startup the notification chain contains the tray backend,
\* behind plyer and win10toast and before the custom window.
C28_TrayBackendRegistered ==
    \E k \in DOMAIN notification_methods :
        /\ notification_methods[k] = "tray"
        /\ \A j \in DOMAIN notification_methods :
               /\ notification_methods[j] \in {"plyer", "win10toast"} => j < k
               /\ notification_methods[j] = "custom" => k < j

\* C29: when the server answered 200 with an object whose version is newer
\* than app_version, the finished update check has emitted update_available
\* and check_completed(True, ...); it reports 'check failed' only when no
\* valid update info was obtained.
C29_NewerVersionIsAnnounced ==
    update_check.pc = "done" =>
        LET obtained == /\ ~update_check.raises
                        /\ update_check.status = 200
                        /\ update_check.body.has_version
            emitted == update_check.emitted
        IN /\ (obtained
               /\ is_new_version_available(update_check.body.version)) =>
                  /\ \E k \in DOMAIN emitted :
                         emitted[k].signal = "update_available"
                  /\ \E k \in DOMAIN emitted :
                         /\ emitted[k].signal = "check_completed"
                         /\ emitted[k].has_update
           /\ (\E k \in DOMAIN emitted :
                   emitted[k].message = "check_failed") => ~obtained

\* C30: once close_application has called stop() and waits for the checker
\* thread, the thread's run loop exits, wait() returns and the application
\* quits.
C30_ShutdownTerminates ==
    (closing = "waiting") ~> (closing = "quit" /\ api_checker.pc = "exited")

\* C30 witness: the application has quit after stop() interrupted the
\* sleeps between two requests before the thirty seconds were over.
C30_Witness ==
    /\ closing = "quit"
    /\ api_checker.pc = "exited"
    /\ api_checker.sleeps \in 1..(SleepSteps - 1)

\* The calls of conns made one after the other in the given order, each
\* failing or not as it did: the table afterwards and the values returned.
RECURSIVE serial(_, _, _)
serial(rows, order, results) ==
    IF order = <<>> THEN [rows |-> rows, results |-> results]
    ELSE LET c == conns[Head(order)]
             r == statement(c, rows, c.ok)
         IN serial(r.rows, Tail(order),
                   [results EXCEPT ![Head(order)] = r.result])

\* The orders of the calls.
Orders ==
    { q \in [DOMAIN conns -> DOMAIN conns] :
          \A i, j \in DOMAIN conns : i # j => q[i] # q[j] }

\* C22: whenever the calls made by the lookup threads and the GUI thread
\* have all returned, the history table and the returned values are those
\* of making the same calls one after the other in some order on the table
\* the first call found: no write is lost or applied in part.
C22_ConcurrentCallsAreSerial ==
    (conns # <<>> /\ \A i \in DOMAIN conns : conns[i].pc = "done") =>
        \E q \in Orders :
            LET r == serial(conns[1].started_on, q,
                            [i \in DOMAIN conns |-> FALSE])
            IN /\ history = r.rows
               /\ \A i \in DOMAIN conns : conns[i].result = r.results[i]

\* C22 witness: add_record of a lookup thread and clear_history of the GUI
\* thread overlapped (the clear was called on the table the insert found),
\* both returned True, and the inserted record is in the table.
C22_Witness ==
    /\ Len(conns) = 2
    /\ \A i \in DOMAIN conns :
           conns[i].pc = "done" /\ conns[i].ok /\ conns[i].result
    /\ conns[1].op = "add_record"
    /\ conns[2].op = "clear_history"
    /\ conns[2].started_on = conns[1].started_on
    /\ conns[1].started_on # <<>>
    /\ Len(history) = 1

====
